---- MODULE Spec2Model ----
(***************************************************************************)
(* State-machine model of src/main.py: the in-memory chat store (chats),   *)
(* the per-chat WebSocket registry (chat_connections), the REST handlers,  *)
(* the bot background task and broadcast_to_chat.                          *)
(*                                                                         *)
(* The program is a single-threaded asyncio application.  A step of the    *)
(* model is the code one task runs between two suspension points.  The     *)
(* suspension points are `await ws.send_text(...)` (line 474),             *)
(* `await asyncio.sleep(...)` (lines 294-309) and                          *)
(* `await websocket.receive_text()` (line 460).  Awaiting a coroutine that *)
(* does not suspend (broadcast_to_chat with no registry entry) runs on     *)
(* inside the same step.  A send_text call hands its frame to the          *)
(* connection, or fails, when it is called, and the caller is suspended    *)
(* in it until it is resumed: one step makes at most one send_text call.   *)
(***************************************************************************)
EXTENDS Naturals, Sequences, FiniteSets, TLC

\* ---------------------------------------------------------------- bounds
MaxChats == 1
MaxConns == 2
MaxTasks == 2
MaxParticipants == 1
MaxSends == 1
\* the registry on its own (StoreSpec)
MaxStoreChats == 3
MaxStoreParticipants == 2

\* ------------------------------------------------------------- constants
BOT_USER_ID == "bot_user"
None == 0
MinResponses == 1
MaxResponses == 3

\* user ids the clients put in request bodies; "mallory" is never a
\* participant of any chat created below, and no client poses as the bot
Humans == {"alice"}
UserIds == Humans \cup {"mallory"}
Statuses == {"online", "offline", "typing"}

\* a sample of the catalogue of canned replies (lines 65-258)
predefined_responses ==
    << [type |-> "text", content |-> "Interesting..."] >>

\* a chat id no create_chat call ever returned
BogusChat == 0
Conns == 1 .. MaxConns
Tasks == 1 .. MaxTasks

VARIABLES
    chats,             \* dict chat_id -> chat record                (line 34)
    chat_connections,  \* dict chat_id -> list object of WebSockets  (line 35)
    clock,             \* number of datetime.utcnow() readings so far
    nextMsg,           \* number of message ids drawn so far (uuid4, line 315)
    wsState,           \* per WebSocket: "new", "open", "closed", "crashed"
    wsChat,            \* per WebSocket: the chat_id of its endpoint
    pc,                \* per task: "idle", "sending", "sleep", "done", "failed"
    op,                \* per task: the operation being (or last) run
    left,              \* per task: bot replies still to send after this one
    tchat,             \* per task: chat_id of the request
    frame,             \* per task: locals of the running broadcast_to_chat
                       \*   (event, data, list, idx, to_remove) and its
                       \*   history (pub, pending, overtaken, late, failed0,
                       \*   retry), see NoFrame
    resp,              \* per task: HTTP status of the request, 0 = none yet
    tuser,             \* per task: user_id of the request
    nPubs,             \* history: number of broadcast_to_chat calls so far
    whole,             \* history: per task, the WebSockets subscribed ever
                       \*   since the task's activation was scheduled
    deaf,              \* history: per task, those of whole that were not sent
                       \*   one of the events the activation published
    failed             \* history: the subscribed WebSockets on which a
                       \*   send_text has raised

vars == << chats, chat_connections, clock, nextMsg, wsState, wsChat, pc, op,
           left, tchat, tuser, frame, resp, nPubs, whole, deaf, failed >>

\* --------------------------------------------------------------- helpers
Range(s) == { s[i] : i \in 1 .. Len(s) }

Contains(s, x) == \E i \in 1 .. Len(s) : s[i] = x

\* list.remove(x): drops the first occurrence of x
ListRemove(s, x) ==
    LET i == CHOOSE k \in 1 .. Len(s) : s[k] = x /\ \A j \in 1 .. (k - 1) : s[j] # x
    IN  [ k \in 1 .. (Len(s) - 1) |-> IF k < i THEN s[k] ELSE s[k + 1] ]

\* del d[k]
DictDel(d, k) == [ x \in (DOMAIN d) \ {k} |-> d[x] ]

\* d[k] = v
DictSet(d, k, v) == [ x \in (DOMAIN d) \cup {k} |-> IF x = k THEN v ELSE d[x] ]

SeqsUpTo(S, n) == UNION { [1 .. k -> S] : k \in 0 .. n }

BotStages == {"bot_online", "bot_read", "bot_typing", "bot_msg", "bot_offline"}

\* what a payload says: the user, the presence status (presence_updated),
\* the message id (message_received) or last_read_message_id (chat_read)
Payload(user_id, status, id) == [user_id |-> user_id, status |-> status, id |-> id]

\* The frame of a broadcast_to_chat call.  Locals: event, data (the
\* arguments), list and idx (the list iterator of line 472), to_remove.
\* History: pub, the number of the call in call order; pending, the
\* WebSockets subscribed since before the call and ever since, on which the
\* call has not called send_text yet; overtaken, those of pending that a
\* later call has sent its event; late, the WebSockets this call sent its
\* event after a later call had; failed0, the value of `failed` when the
\* call was made; retry, those of failed0 the call called send_text on.
NoFrame == [ pub |-> 0, event |-> "none", data |-> Payload("", "", 0), list |-> 0,
             idx |-> 0, to_remove |-> << >>, pending |-> {}, overtaken |-> {},
             late |-> {}, failed0 |-> {}, retry |-> {} ]

NoSend == [w |-> 0, ok |-> FALSE, pub |-> 0]

\* ------------------------------------------------------------ chat store
\* create_chat with the comprehension of line 268 over `participants`
create_chat_receipt_for_all(participants, now) ==
    LET all == participants \o << BOT_USER_ID >>
    IN  [ participants  |-> all,
          messages      |-> << >>,
          read_receipts |-> [ p \in Range(all) |-> None ],
          presence      |-> [ p \in Range(all) |->
                                [status |-> "offline", last_seen |-> now] ] ]

\* the chat record create_chat stores (lines 264-273)
create_chat(participants, now) ==
    LET all == participants \o << BOT_USER_ID >>
    IN  [ participants  |-> all,
          messages      |-> << >>,
          read_receipts |-> [ p \in Range(participants) |-> None ],
          presence      |-> [ p \in Range(all) |->
                                [status |-> "offline", last_seen |-> now] ] ]

get_messages(chat_id) == chats[chat_id].messages

\* _send_message with insert(0, message) for append
_send_message_prepend(chat, msg_id, user_id, type, content, now) ==
    [ chat EXCEPT !.messages =
        << [ id |-> msg_id, user_id |-> user_id, type |-> type,
             content |-> content, timestamp |-> now ] >> \o @ ]

\* _send_message that also marks the chat read for the sender
_send_message_marks_read(chat, msg_id, user_id, type, content, now) ==
    [ chat EXCEPT !.messages = Append(@,
                     [ id |-> msg_id, user_id |-> user_id, type |-> type,
                       content |-> content, timestamp |-> now ]),
                  !.read_receipts = DictSet(@, user_id, msg_id) ]

\* the store part of _send_message (lines 315-323)
_send_message(chat, msg_id, user_id, type, content, now) ==
    [ chat EXCEPT !.messages = Append(@,
        [ id |-> msg_id, user_id |-> user_id, type |-> type,
          content |-> content, timestamp |-> now ]) ]

\* _update_presence that stamps last_seen on every update
_update_presence_stamps(chat, user_id, status, now) ==
    [ chat EXCEPT !.presence = DictSet(@, user_id,
                                       [status |-> status, last_seen |-> now]) ]

\* the store part of _update_presence (lines 366-376)
_update_presence(chat, user_id, status, now) ==
    [ chat EXCEPT !.presence = DictSet(@, user_id,
        IF status = "offline"
        THEN [status |-> "offline", last_seen |-> now]
        ELSE [status |-> status, last_seen |-> chat.presence[user_id].last_seen]) ]

\* line 422
LastMsgId(messages) ==
    IF messages # << >> THEN messages[Len(messages)].id ELSE None

\* the store part of _mark_chat_read (lines 421-423)
_mark_chat_read(chat, user_id) ==
    [ chat EXCEPT !.read_receipts = DictSet(@, user_id, LastMsgId(chat.messages)) ]

Subscribed(cc) == UNION { Range(cc[c].ws) : c \in DOMAIN cc }

\* ------------------------------------------------------------- broadcast
\* The operators below work on a record W of the shared state:
\*   W.chats, W.cc (chat_connections), W.clock, W.nextMsg, W.nPubs, and for
\*   the history W.failed
\* An intermediate result that is used several times is bound by a set
\* constructor or a quantifier over a one-element set, { e(x) : x \in {v} },
\* which computes v once.

RECURSIVE RemoveBroken(_, _)
\* the loop of lines 480-481 on list `items`: ok is FALSE when a
\* list.remove raised ValueError, and ws is the list as that left it
RemoveBroken(items, to_remove) ==
    IF to_remove = << >> THEN [ws |-> items, ok |-> TRUE]
    ELSE IF ~Contains(items, Head(to_remove)) THEN [ws |-> items, ok |-> FALSE]
    ELSE RemoveBroken(ListRemove(items, Head(to_remove)), Tail(to_remove))

\* lines 480-483, run when the for loop of line 472 is exhausted.
\* chat_connections[chat_id] is looked up afresh: KeyError when the entry
\* is gone (line 481 with something to remove, line 482 otherwise).
BroadcastFinish(cc, c, to_remove) ==
    IF c \notin DOMAIN cc
    THEN [cc |-> cc, raised |-> TRUE]
    ELSE LET r == RemoveBroken(cc[c].ws, to_remove)
         IN  IF ~r.ok
             THEN [cc |-> [cc EXCEPT ![c].ws = r.ws], raised |-> TRUE]
             ELSE IF r.ws = << >>
             THEN [cc |-> DictDel(cc, c), raised |-> FALSE]
             ELSE [cc |-> [cc EXCEPT ![c].ws = r.ws], raised |-> FALSE]

\* the items of the list object an iterator holds: the entry of chat c when
\* it is still that object, and otherwise a list that was emptied (line 463
\* and line 483 delete an entry only when its list is empty)
IterItems(cc, c, list) ==
    IF c \in DOMAIN cc /\ cc[c].id = list THEN cc[c].ws ELSE << >>

\* One turn of the for loop of lines 472-478 on frame f: the list iterator
\* yields the item at position f.idx + 1 of the list as it is now, and
\* send_text is called on it (ok is FALSE when the call raises); or the
\* iterator is exhausted and lines 480-483 run.
BroadcastNext(W, c, f, ok) ==
    CHOOSE b \in
      { IF f.idx < Len(items)
        THEN LET w == items[f.idx + 1]
             IN  [ W |-> W, susp |-> TRUE, raised |-> FALSE,
                   frame |-> [ f EXCEPT !.idx = @ + 1,
                                        !.to_remove = IF ok THEN @ ELSE Append(@, w),
                                        !.pending = @ \ {w},
                                        !.overtaken = @ \ {w},
                                        !.late = IF ok /\ w \in f.overtaken
                                                 THEN @ \cup {w} ELSE @,
                                        !.retry = IF w \in f.failed0 THEN @ \cup {w}
                                                  ELSE @ ],
                   sent |-> [w |-> w, ok |-> ok, pub |-> f.pub] ]
        ELSE CHOOSE e \in
               { [ W |-> [ W EXCEPT !.cc = r.cc,
                                    !.failed = @ \cap Subscribed(r.cc) ],
                   susp |-> FALSE, raised |-> r.raised, frame |-> NoFrame,
                   sent |-> NoSend ] :
                   r \in {BroadcastFinish(W.cc, c, f.to_remove)} } : TRUE :
          items \in {IterItems(W.cc, c, f.list)} } : TRUE

\* broadcast_to_chat from its call to its first suspension (lines 469-474)
BroadcastBegin(W, c, event, data, ok) ==
    LET p  == W.nPubs + 1
        W1 == [W EXCEPT !.nPubs = p]
    IN  IF c \notin DOMAIN W.cc
        THEN [ W |-> W1, susp |-> FALSE, raised |-> FALSE, frame |-> NoFrame,
               sent |-> NoSend ]
        ELSE CHOOSE b \in { BroadcastNext(V, c, f, ok) : V \in {W1}, f \in {
                 [ pub |-> p, event |-> event, data |-> data, list |-> W.cc[c].id,
                   idx |-> 0, to_remove |-> << >>, pending |-> Range(W.cc[c].ws),
                   overtaken |-> {}, late |-> {}, failed0 |-> W.failed,
                   retry |-> {} ]} } : TRUE

\* ----------------------------------------------------------------- tasks
\* json.dumps({"event": event_type, "data": payload}) (line 470) keeps the
\* event name and, of the payload, what identifies the mutation
EventOf(stage) ==
    CASE stage \in {"send", "bot_msg"} -> "message_received"
      [] stage = "bot_read" -> "chat_read"
      [] OTHER -> "presence_updated"

\* Mutate for an _update_presence that publishes presence_updated without
\* storing the new record
Mutate_skips_presence(W, c, stage, user_id, status, env) ==
    LET chat == W.chats[c]
    IN  CASE stage \in {"send", "bot_msg"} ->
               LET msg_id == W.nextMsg + 1
                   type   == IF stage = "send" THEN "text"
                             ELSE predefined_responses[env.r].type
                   body   == IF stage = "send" THEN "hi"
                             ELSE predefined_responses[env.r].content
                   new    == _send_message(chat, msg_id, user_id, type, body, W.clock)
               IN  [ W |-> [W EXCEPT !.chats[c] = new, !.nextMsg = msg_id,
                                     !.clock = @ + 1],
                     data |-> Payload(user_id, "", msg_id) ]
          [] stage \in {"presence", "bot_online", "bot_typing", "bot_offline"} ->
               [ W |-> W, data |-> Payload(user_id, status, 0) ]
          [] stage = "bot_read" ->
               LET new == _mark_chat_read(chat, user_id)
               IN  [ W |-> [W EXCEPT !.chats[c] = new],
                     data |-> Payload(user_id, "", LastMsgId(chat.messages)) ]

\* The mutation of one operation and the payload it publishes.  env.r is
\* the index random.choice draws at line 306.
Mutate(W, c, stage, user_id, status, env) ==
    LET chat == W.chats[c]
    IN  CASE stage \in {"send", "bot_msg"} ->
               LET msg_id == W.nextMsg + 1
                   type   == IF stage = "send" THEN "text"
                             ELSE predefined_responses[env.r].type
                   body   == IF stage = "send" THEN "hi"
                             ELSE predefined_responses[env.r].content
                   new    == _send_message(chat, msg_id, user_id, type, body, W.clock)
               IN  [ W |-> [W EXCEPT !.chats[c] = new, !.nextMsg = msg_id,
                                     !.clock = @ + 1],
                     data |-> Payload(user_id, "", msg_id) ]
          [] stage \in {"presence", "bot_online", "bot_typing", "bot_offline"} ->
               LET new == _update_presence(chat, user_id, status, W.clock)
               IN  [ W |-> [W EXCEPT !.chats[c] = new,
                                     !.clock = IF status = "offline" THEN @ + 1 ELSE @],
                     data |-> Payload(user_id, status, 0) ]
          [] stage = "bot_read" ->
               LET new == _mark_chat_read(chat, user_id)
               IN  [ W |-> [W EXCEPT !.chats[c] = new],
                     data |-> Payload(user_id, "", LastMsgId(chat.messages)) ]

\* the status argument of each bot step (lines 295, 301, 311)
BotStatus(stage) ==
    CASE stage = "bot_online" -> "online"
      [] stage = "bot_typing" -> "typing"
      [] stage = "bot_offline" -> "offline"
      [] OTHER -> ""

\* HTTP status already sent when a step of `stage` runs: the background task
\* runs after the 200 response of send_message
RespAt(stage) == IF stage \in BotStages THEN 200 ELSE 0

RECURSIVE Advance(_, _, _, _, _, _)
RECURSIVE StartStage(_, _, _, _, _, _, _)
\* Advance for a background task that waits, after its last reply, for an
\* event nothing sets
Advance_waits_forever(W, c, stage, lft, raised, env) ==
    LET R(p, o, l, h) == [ W |-> W, pc |-> p, op |-> o, left |-> l,
                           frame |-> NoFrame, resp |-> h, sent |-> NoSend ]
    IN  CASE stage = "send" ->
               IF raised THEN R("done", "send", 0, 500)
               ELSE R("sleep", "bot_online", 0, 200)
          [] stage = "presence" ->
               R("done", "presence", 0, IF raised THEN 500 ELSE 200)
          [] stage \in BotStages /\ raised -> R("failed", stage, lft, 200)
          [] stage = "bot_online" /\ ~raised -> R("sleep", "bot_read", 0, 200)
          [] stage = "bot_read" /\ ~raised -> R("sleep", "bot_typing", 0, 200)
          [] stage = "bot_typing" /\ ~raised ->
               StartStage(W, c, "bot_msg", BOT_USER_ID, "", env.n - 1, env)
          [] stage = "bot_msg" /\ ~raised ->
               R(IF lft > 0 THEN "sleep" ELSE "waiting",
                 IF lft > 0 THEN "bot_msg" ELSE "bot_offline", lft, 200)
          [] stage = "bot_offline" /\ ~raised -> R("done", "bot_offline", 0, 200)

\* A task runs operation `stage`: the mutation m, the broadcast_to_chat call
\* b, and on to the next suspension point.  (m and b are bound by set
\* constructors, which compute them once.)
StartStage(W, c, stage, user_id, status, lft, env) ==
    CHOOSE R \in
      { IF b.susp
        THEN [ W |-> b.W, pc |-> "sending", op |-> stage, left |-> lft,
               frame |-> b.frame, resp |-> RespAt(stage), sent |-> b.sent ]
        ELSE Advance(b.W, c, stage, lft, b.raised, env) :
          b \in { BroadcastBegin(m.W, c, EventOf(stage), m.data, env.ok) :
                    m \in {Mutate(W, c, stage, user_id, status, env)} } } : TRUE

\* A task after the broadcast_to_chat call of `stage` returned or raised, up
\* to its next suspension point.  env.n is num_responses (line 303).
Advance(W, c, stage, lft, raised, env) ==
    LET R(p, o, l, h) == [ W |-> W, pc |-> p, op |-> o, left |-> l,
                           frame |-> NoFrame, resp |-> h, sent |-> NoSend ]
    IN  CASE stage = "send" ->
               \* lines 343-347: an exception skips add_task
               IF raised THEN R("done", "send", 0, 500)
               ELSE R("sleep", "bot_online", 0, 200)
          [] stage = "presence" ->
               R("done", "presence", 0, IF raised THEN 500 ELSE 200)
          [] stage \in BotStages /\ raised -> R("failed", stage, lft, 200)
          [] stage = "bot_online" /\ ~raised -> R("sleep", "bot_read", 0, 200)
          [] stage = "bot_read" /\ ~raised -> R("sleep", "bot_typing", 0, 200)
          [] stage = "bot_typing" /\ ~raised ->
               \* lines 303-307: no suspension before the first reply
               StartStage(W, c, "bot_msg", BOT_USER_ID, "", env.n - 1, env)
          [] stage = "bot_msg" /\ ~raised ->
               \* line 309, then the next iteration or line 311
               R("sleep", IF lft > 0 THEN "bot_msg" ELSE "bot_offline", lft, 200)
          [] stage = "bot_offline" /\ ~raised -> R("done", "bot_offline", 0, 200)

\* what a step that starts in `stage` draws from outside the program:
\* num_responses (line 303, reached from bot_typing), the index of
\* random.choice (line 306), whether the send_text call of the step succeeds
Draws(stage) ==
    [ n  : IF stage = "bot_typing" THEN MinResponses .. MaxResponses
           ELSE {MinResponses},
      r  : IF stage \in {"bot_typing", "bot_msg"}
           THEN 1 .. Len(predefined_responses) ELSE {1},
      ok : BOOLEAN ]

World == [ chats |-> chats, cc |-> chat_connections, clock |-> clock,
           nextMsg |-> nextMsg, nPubs |-> nPubs, failed |-> failed ]

\* the next state from the result R of task t's step
Commit(t, c, u, R) ==
    LET \* the call task t was suspended in ended in this step
        ended     == frame[t].pub # 0 /\ R.frame.pub # frame[t].pub
        scheduled == op[t] \notin BotStages /\ R.op \in BotStages
    IN  \E lost \in {Subscribed(chat_connections) \ Subscribed(R.W.cc)} :
        /\ chats' = R.W.chats
        /\ chat_connections' = R.W.cc
        /\ clock' = R.W.clock
        /\ nextMsg' = R.W.nextMsg
        /\ nPubs' = R.W.nPubs
        /\ failed' = R.W.failed \cup
                       (IF R.sent.w # 0 /\ ~R.sent.ok THEN {R.sent.w} ELSE {})
        /\ pc' = [pc EXCEPT ![t] = R.pc]
        /\ op' = [op EXCEPT ![t] = R.op]
        /\ left' = [left EXCEPT ![t] = R.left]
        /\ tchat' = [tchat EXCEPT ![t] = c]
        /\ tuser' = [tuser EXCEPT ![t] = u]
        /\ resp' = [resp EXCEPT ![t] = R.resp]
        /\ frame' = [ x \in Tasks |->
                        IF x = t THEN R.frame
                        ELSE [ frame[x] EXCEPT
                                 !.pending = @ \ lost,
                                 !.overtaken =
                                    IF /\ R.sent.w # 0 /\ R.sent.ok
                                       /\ frame[x].pub < R.sent.pub
                                       /\ R.sent.w \in frame[x].pending
                                    THEN @ \cup {R.sent.w} ELSE @ \ lost ] ]
        /\ whole' = [ x \in Tasks |->
                        IF x = t /\ scheduled THEN Subscribed(R.W.cc)
                        ELSE whole[x] \ lost ]
        /\ deaf' = [ x \in Tasks |->
                       IF x = t /\ ended /\ op[t] \in BotStages
                       THEN (deaf[t] \cup (frame[t].pending \cap whole[t])) \ lost
                       ELSE deaf[x] \ lost ]
        /\ UNCHANGED << wsState, wsChat >>

\* a request that fails before it touches anything (HTTPException, or the
\* exception of line 423): the state keeps its response
Reject(t, c, u, o, status) ==
    /\ pc' = [pc EXCEPT ![t] = "done"]
    /\ op' = [op EXCEPT ![t] = o]
    /\ tchat' = [tchat EXCEPT ![t] = c]
    /\ tuser' = [tuser EXCEPT ![t] = u]
    /\ resp' = [resp EXCEPT ![t] = status]
    /\ UNCHANGED << chats, chat_connections, clock, nextMsg, wsState, wsChat,
                    left, frame, nPubs, whole, deaf, failed >>

\* tasks are numbered in the order their requests arrive, WebSockets in the
\* order they are accepted
IsNextTask(t) == pc[t] = "idle" /\ \A t2 \in Tasks : t2 < t => pc[t2] # "idle"

IsNextConn(w) == wsState[w] = "new" /\ \A w2 \in Conns : w2 < w => wsState[w2] # "new"

\* send_message requests accepted so far
Sends == { t \in Tasks : op[t] \in BotStages \cup {"send"} }

\* chat ids a client can name: those create_chat returned, or a wrong one
KnownChatIds == (DOMAIN chats) \cup {BogusChat}

\* --------------------------------------------------------------- actions
Init ==
    /\ chats = << >>
    /\ chat_connections = << >>
    /\ clock = 0
    /\ nextMsg = 0
    /\ wsState = [w \in Conns |-> "new"]
    /\ wsChat = [w \in Conns |-> BogusChat]
    /\ pc = [t \in Tasks |-> "idle"]
    /\ op = [t \in Tasks |-> "none"]
    /\ left = [t \in Tasks |-> 0]
    /\ tchat = [t \in Tasks |-> BogusChat]
    /\ tuser = [t \in Tasks |-> ""]
    /\ frame = [t \in Tasks |-> NoFrame]
    /\ resp = [t \in Tasks |-> 0]
    /\ nPubs = 0
    /\ whole = [t \in Tasks |-> {}]
    /\ deaf = [t \in Tasks |-> {}]
    /\ failed = {}

\* POST /chats (lines 261-274); uuid4 gives an id no chat has
CreateChatCall(participants) ==
    /\ LET chat_id == Cardinality(DOMAIN chats) + 1
       IN  chats' = DictSet(chats, chat_id, create_chat(participants, clock))
    /\ clock' = clock + 1
    /\ UNCHANGED << chat_connections, nextMsg, wsState, wsChat, pc, op, left,
                    tchat, tuser, frame, resp, nPubs, whole, deaf, failed >>

CreateChat(participants) ==
    /\ Cardinality(DOMAIN chats) < MaxChats
    /\ CreateChatCall(participants)

\* websocket_endpoint up to receive_text (lines 452-460), for a client that
\* names a chat create_chat returned
Connect(w, c) ==
    /\ IsNextConn(w)
    /\ wsState' = [wsState EXCEPT ![w] = "open"]
    /\ wsChat' = [wsChat EXCEPT ![w] = c]
    /\ chat_connections' =
         IF c \notin DOMAIN chat_connections
         THEN DictSet(chat_connections, c, [id |-> w, ws |-> << w >>])
         ELSE [chat_connections EXCEPT ![c].ws = Append(@, w)]
    /\ UNCHANGED << chats, clock, nextMsg, pc, op, left, tchat, tuser, frame,
                    resp, nPubs, whole, deaf, failed >>

\* a WebSocketDisconnect handler that, when it drops an emptied entry, also
\* clears the history of the chat
Disconnect_clears_history(w) ==
    /\ wsState[w] = "open"
    /\ LET c == wsChat[w]
       IN  IF c \in DOMAIN chat_connections /\ Contains(chat_connections[c].ws, w)
           THEN LET items == ListRemove(chat_connections[c].ws, w)
                IN  /\ wsState' = [wsState EXCEPT ![w] = "closed"]
                    /\ chat_connections' =
                         IF items = << >> THEN DictDel(chat_connections, c)
                         ELSE [chat_connections EXCEPT ![c].ws = items]
                    /\ chats' = IF items = << >>
                                THEN [chats EXCEPT ![c].messages = << >>]
                                ELSE chats
                    /\ frame' = [ t \in Tasks |->
                                    [ frame[t] EXCEPT !.pending = @ \ {w},
                                                      !.overtaken = @ \ {w} ] ]
                    /\ whole' = [t \in Tasks |-> whole[t] \ {w}]
                    /\ deaf' = [t \in Tasks |-> deaf[t] \ {w}]
                    /\ failed' = failed \ {w}
           ELSE /\ wsState' = [wsState EXCEPT ![w] = "crashed"]
                /\ UNCHANGED << chats, chat_connections, frame, whole, deaf, failed >>
    /\ UNCHANGED << clock, nextMsg, wsChat, pc, op, left, tchat, tuser,
                    resp, nPubs >>

\* the WebSocketDisconnect handler (lines 461-464); "crashed" is the
\* KeyError or ValueError of line 462
Disconnect(w) ==
    /\ wsState[w] = "open"
    /\ LET c == wsChat[w]
       IN  IF c \in DOMAIN chat_connections /\ Contains(chat_connections[c].ws, w)
           THEN LET items == ListRemove(chat_connections[c].ws, w)
                IN  /\ wsState' = [wsState EXCEPT ![w] = "closed"]
                    /\ chat_connections' =
                         IF items = << >> THEN DictDel(chat_connections, c)
                         ELSE [chat_connections EXCEPT ![c].ws = items]
                    /\ frame' = [ t \in Tasks |->
                                    [ frame[t] EXCEPT !.pending = @ \ {w},
                                                      !.overtaken = @ \ {w} ] ]
                    /\ whole' = [t \in Tasks |-> whole[t] \ {w}]
                    /\ deaf' = [t \in Tasks |-> deaf[t] \ {w}]
                    /\ failed' = failed \ {w}
           ELSE /\ wsState' = [wsState EXCEPT ![w] = "crashed"]
                /\ UNCHANGED << chat_connections, frame, whole, deaf, failed >>
    /\ UNCHANGED << chats, clock, nextMsg, wsChat, pc, op, left, tchat, tuser,
                    resp, nPubs >>

\* send_message without the participant check of lines 338-341
SendMessage_unchecked(t, c, user_id, env) ==
    /\ IsNextTask(t)
    /\ IF c \notin DOMAIN chats THEN Reject(t, BogusChat, "", "send_rejected", 404)
       ELSE /\ Cardinality(Sends) < MaxSends
            /\ \E R \in {StartStage(World, c, "send", user_id, "", 0, env)} :
                  Commit(t, c, user_id, R)

\* POST /chats/{chat_id}/messages (lines 332-347) up to its first suspension
SendMessageCall(t, c, user_id, env) ==
    /\ IsNextTask(t)
    /\ IF c \notin DOMAIN chats THEN Reject(t, BogusChat, "", "send_rejected", 404)
       ELSE IF ~Contains(chats[c].participants, user_id)
       THEN Reject(t, c, user_id, "send_rejected", 403)
       ELSE \E R \in {StartStage(World, c, "send", user_id, "", 0, env)} :
               Commit(t, c, user_id, R)

SendMessage(t, c, user_id, env) ==
    /\ (c \in DOMAIN chats /\ Contains(chats[c].participants, user_id))
          => Cardinality(Sends) < MaxSends
    /\ SendMessageCall(t, c, user_id, env)

\* POST /chats/{chat_id}/presence (lines 350-361) up to its first suspension
UpdatePresence(t, c, user_id, status, env) ==
    /\ IsNextTask(t)
    /\ IF c \notin DOMAIN chats THEN Reject(t, BogusChat, "", "rejected", 404)
       ELSE IF ~Contains(chats[c].participants, user_id)
       THEN Reject(t, BogusChat, "", "rejected", 403)
       ELSE \E R \in {StartStage(World, c, "presence", user_id, status, 0, env)} :
               Commit(t, c, user_id, R)

\* POST /chats/{chat_id}/read (lines 408-417).  Line 417 passes the request
\* model `req`, not req.user_id, to _mark_chat_read; a pydantic model (one
\* that accepts Field(regex=...)) defines __eq__ and no __hash__, so the
\* dict store of line 423 raises TypeError before anything is written or
\* published.
MarkChatRead(t, c, user_id) ==
    /\ IsNextTask(t)
    /\ IF c \notin DOMAIN chats THEN Reject(t, BogusChat, "", "rejected", 404)
       ELSE IF ~Contains(chats[c].participants, user_id)
       THEN Reject(t, BogusChat, "", "rejected", 403)
       ELSE Reject(t, c, user_id, "read", 500)

\* the background task wakes from asyncio.sleep and runs its next operation
\* (lines 294-311)
BotStep(t, env) ==
    /\ pc[t] = "sleep"
    /\ \E R \in {StartStage(World, tchat[t], op[t], BOT_USER_ID, BotStatus(op[t]),
                            IF op[t] = "bot_msg" THEN left[t] - 1 ELSE 0, env)} :
          Commit(t, tchat[t], tuser[t], R)

\* a task suspended in send_text (line 474) is resumed: the for loop takes
\* its next turn, or ends, and the task runs on to its next suspension point
Resume(t, env) ==
    /\ pc[t] = "sending"
    /\ \E b \in { BroadcastNext(W, tchat[t], f, env.ok) :
                     W \in {World}, f \in {frame[t]} } :
          \E R \in { IF b.susp
                     THEN [ W |-> b.W, pc |-> "sending", op |-> op[t],
                            left |-> left[t], frame |-> b.frame, resp |-> resp[t],
                            sent |-> b.sent ]
                     ELSE Advance(b.W, tchat[t], op[t], left[t], b.raised, env) } :
             Commit(t, tchat[t], tuser[t], R)

Next ==
    \/ \E P \in SeqsUpTo(Humans, MaxParticipants) : CreateChat(P)
    \/ \E w \in Conns, c \in DOMAIN chats : Connect(w, c)
    \/ \E w \in Conns : Disconnect(w)
    \/ \E t \in Tasks, c \in KnownChatIds, u \in UserIds, env \in Draws("send") :
         SendMessage(t, c, u, env)
    \/ \E t \in Tasks, c \in KnownChatIds, u \in UserIds, s \in Statuses,
          env \in Draws("presence") :
         UpdatePresence(t, c, u, s, env)
    \/ \E t \in Tasks, c \in KnownChatIds, u \in UserIds : MarkChatRead(t, c, u)
    \/ \E t \in Tasks : \E env \in Draws(op[t]) : BotStep(t, env)
    \/ \E t \in Tasks : \E env \in Draws(op[t]) : Resume(t, env)

Spec == Init /\ [][Next]_vars

\* The chat registry on its own: clients only create chats, with any
\* participants list the request model of lines 38-39 accepts.
StoreUsers == {"alice", "bob"}

StoreNext ==
    \E P \in SeqsUpTo(StoreUsers, MaxStoreParticipants) :
       /\ Cardinality(DOMAIN chats) < MaxStoreChats
       /\ CreateChatCall(P)

StoreSpec == Init /\ [][StoreNext]_vars

ActivationNext ==
    \/ \E P \in SeqsUpTo(Humans, MaxParticipants) : CreateChat(P)
    \/ \E t \in Tasks, c \in DOMAIN chats, u \in Humans, env \in Draws("send") :
         SendMessageCall(t, c, u, env)
    \/ \E t \in Tasks : \E env \in Draws(op[t]) : BotStep(t, env)

\* the activations of up to MaxTasks accepted messages, with nobody
\* subscribed
ActivationSpec == Init /\ [][ActivationNext]_vars

\* The event loop runs every task that is ready: a sleep that has elapsed
\* (asyncio.sleep of 2 to 4 seconds) and a send_text that has returned or
\* raised are resumed.
FairSpec ==
    /\ Spec
    /\ \A t \in Tasks : /\ WF_vars(\E env \in Draws(op[t]) : BotStep(t, env))
                        /\ WF_vars(\E env \in Draws(op[t]) : Resume(t, env))

\* ---------------------------------------------------------------- claims
\* C1: two events published on a chat reach every connection that receives
\* both in the order of the broadcast_to_chat calls: no call sends its event
\* to a connection after a later call has sent its own to it.
C1_PublishOrder == \A t \in Tasks : frame[t].late = {}

\* C2: when a broadcast_to_chat call ends, it has called send_text on every
\* connection that was subscribed before the call and ever since.
C2_AllSubscribersSent ==
    [][ \A t \in Tasks :
          (frame[t].pub # 0 /\ frame'[t].pub # frame[t].pub)
             => frame[t].pending = {} ]_vars

\* C3: once a send_text to a connection has raised, no broadcast_to_chat
\* call made after that calls send_text on the connection.
C3_FailedNeverRetried == \A t \in Tasks : frame[t].retry = {}

\* C4: broadcast_to_chat never raises to its caller: no send_message or
\* update_presence request ends in an exception (500) and no bot activation
\* is ended by one.
C4_PublishNeverRaises ==
    \A t \in Tasks : /\ pc[t] # "failed"
                     /\ ~(op[t] \in {"send", "presence"} /\ resp[t] = 500)

C6_ActivationComplete ==
    \A t \in Tasks :
       (op[t] \in BotStages /\ pc[t] \in {"done", "failed"})
          => (pc[t] = "done" /\ op[t] = "bot_offline" /\ deaf[t] = {})

\* C7: in every chat the messages appended through send_message are as many
\* as the activations scheduled plus the send_message requests that have
\* not returned yet.
C7_OneActivationPerSend ==
    \A c \in DOMAIN chats :
       Cardinality({ i \in 1 .. Len(chats[c].messages) :
                       chats[c].messages[i].user_id # BOT_USER_ID })
         = Cardinality({ t \in Tasks : tchat[t] = c /\ op[t] \in BotStages })
           + Cardinality({ t \in Tasks : tchat[t] = c /\ op[t] = "send"
                                         /\ pc[t] = "sending" })

C9_MarkReadSetsReceipt ==
    [][ \A t \in Tasks :
          /\ (pc[t] = "idle" /\ op'[t] = "read")
                => /\ resp'[t] = 200
                   /\ tuser'[t] \in DOMAIN chats'[tchat'[t]].read_receipts
                   /\ chats'[tchat'[t]].read_receipts[tuser'[t]]
                        = LastMsgId(chats[tchat'[t]].messages)
          /\ (pc[t] = "sleep" /\ op[t] = "bot_read" /\ pc'[t] # "sleep")
                => /\ chats'[tchat[t]].read_receipts[BOT_USER_ID]
                        = LastMsgId(chats[tchat[t]].messages)
                   /\ pc'[t] = "sending"
                        => frame'[t].data.id = LastMsgId(chats[tchat[t]].messages)
      ]_vars

C11_PresenceLastSeen ==
    [][ \A c \in DOMAIN chats :
          LET old == chats[c].presence
              new == chats'[c].presence
          IN  /\ DOMAIN new = DOMAIN old
              /\ \A p \in DOMAIN old :
                   new[p] # old[p] =>
                     /\ \A q \in (DOMAIN old) \ {p} : new[q] = old[q]
                     /\ IF new[p].status = "offline"
                        THEN new[p].last_seen = clock
                        ELSE new[p].last_seen = old[p].last_seen
                     /\ \E t \in Tasks :
                          /\ tchat'[t] = c
                          /\ \/ /\ pc[t] = "idle"
                                /\ op'[t] = "presence"
                                /\ tuser'[t] = p
                             \/ /\ pc[t] = "sleep"
                                /\ op[t] \in {"bot_online", "bot_typing", "bot_offline"}
                                /\ p = BOT_USER_ID ]_vars

\* the bot is typing with the last_seen it was created with, after a human
\* went offline at a later time
C11_Witness ==
    \E c \in DOMAIN chats :
       \E p \in DOMAIN chats[c].presence :
          /\ chats[c].presence[BOT_USER_ID].status = "typing"
          /\ chats[c].presence[p].status = "offline"
          /\ chats[c].presence[p].last_seen > chats[c].presence[BOT_USER_ID].last_seen

\* C12: a send_message request on an existing chat by a user who is not one
\* of its participants answers 403 and leaves the chat's message log as it
\* was (the whole store, in fact), publishing nothing.
C12_ForbiddenSend ==
    [][ \A t \in Tasks, c \in DOMAIN chats, u \in UserIds, env \in Draws("send") :
          (~Contains(chats[c].participants, u) /\ SendMessage(t, c, u, env))
             => /\ resp'[t] = 403
                /\ pc'[t] = "done"
                /\ c \in DOMAIN chats'
                /\ get_messages(c)' = get_messages(c)
                /\ chats' = chats
                /\ nPubs' = nPubs ]_vars

\* a send_message request by a non-participant has been answered 403 on a
\* chat whose log holds messages
C12_Witness ==
    \E t \in Tasks :
       /\ op[t] = "send_rejected"
       /\ resp[t] = 403
       /\ tchat[t] \in DOMAIN chats
       /\ ~Contains(chats[tchat[t]].participants, tuser[t])
       /\ get_messages(tchat[t]) # << >>

\* C13: a create_chat call with a valid list P (not empty, no user twice)
\* adds one chat under an id no chat had: its participants are P followed by
\* the bot, its log is empty, its read receipts are None for exactly the
\* users of P, its presence is offline for exactly the users of P and the
\* bot; the chats that existed are as they were.
C13_CreateChat ==
    [][ \A P \in SeqsUpTo(StoreUsers, MaxStoreParticipants) :
          ( /\ P # << >>
            /\ \A i, j \in 1 .. Len(P) : P[i] = P[j] => i = j
            /\ CreateChatCall(P) )
          => \E c \in (DOMAIN chats') \ (DOMAIN chats) :
                /\ DOMAIN chats' = (DOMAIN chats) \cup {c}
                /\ \A x \in DOMAIN chats : chats'[x] = chats[x]
                /\ chats'[c].participants = P \o << BOT_USER_ID >>
                /\ chats'[c].messages = << >>
                /\ DOMAIN chats'[c].read_receipts = Range(P)
                /\ \A p \in Range(P) : chats'[c].read_receipts[p] = None
                /\ DOMAIN chats'[c].presence = Range(P) \cup {BOT_USER_ID}
                /\ \A p \in DOMAIN chats'[c].presence :
                      chats'[c].presence[p].status = "offline" ]_vars

\* a chat of two users created when other chats existed
C13_Witness ==
    \E c \in DOMAIN chats :
       /\ c > 1
       /\ chats[c].participants = << "alice", "bob", BOT_USER_ID >>

\* C14: a create_chat call whose participants list is empty or names a user
\* twice creates no chat: it leaves the registry as it was.
C14_CreateChatValidates ==
    [][ \A P \in SeqsUpTo(StoreUsers, MaxStoreParticipants) :
          ( /\ \/ P = << >>
               \/ \E i, j \in 1 .. Len(P) : i # j /\ P[i] = P[j]
            /\ CreateChatCall(P) )
          => chats' = chats ]_vars

\* C15: in every state the keys of a chat's read_receipts are exactly its
\* human participants (its participants other than the bot).
C15_ReceiptKeysAreHumans ==
    \A c \in DOMAIN chats :
       DOMAIN chats[c].read_receipts = Range(chats[c].participants) \ {BOT_USER_ID}

\* C16: in every reachable state every chat's participant list has no
\* repeated identifier, holds the bot identifier exactly once, as its last
\* element, and holds at least one human participant; and no step changes
\* the participant list of an existing chat.
C16_ParticipantsWellFormed ==
    /\ [](\A c \in DOMAIN chats :
             LET P == chats[c].participants
             IN  /\ \A i, j \in 1..Len(P) : P[i] = P[j] => i = j
                 /\ Len(P) >= 2
                 /\ P[Len(P)] = BOT_USER_ID
                 /\ \A i \in 1..(Len(P) - 1) : P[i] # BOT_USER_ID)
    /\ [][\A c \in DOMAIN chats :
             c \in DOMAIN chats' /\ chats'[c].participants = chats[c].participants]_vars

\* C17: subscriber-set changes never touch the chat store.  A subscribe
\* (lines 452-458), a disconnect (lines 461-464) and the turn of a publish
\* that prunes failed connections and drops an emptied entry (lines 480-483)
\* leave every chat's participants, messages, read receipts and presence as
\* they were; and a chat whose subscription entry goes away in a step is
\* still stored, with every message get_messages returned before the step.
C17_SubscribersNeverTouchStore ==
    [][ /\ \A w \in Conns, c \in DOMAIN chats : Connect(w, c) => chats' = chats
        /\ \A w \in Conns : Disconnect(w) => chats' = chats
        /\ \A t \in Tasks :
              pc[t] = "sending" =>
                 \A ok \in BOOLEAN :
                    BroadcastNext(World, tchat[t], frame[t], ok).W.chats = chats
        /\ \A c \in DOMAIN chats :
              (c \in DOMAIN chat_connections /\ c \notin DOMAIN chat_connections') =>
                 /\ c \in DOMAIN chats'
                 /\ Len(get_messages(c)') >= Len(get_messages(c))
                 /\ SubSeq(get_messages(c)', 1, Len(get_messages(c))) = get_messages(c)
      ]_vars

\* C17 witness: a chat with history has lost its subscription entry, one of
\* its connections by a disconnect and another by pruning after a failed send
C17_Witness ==
    \E c \in DOMAIN chats :
       /\ get_messages(c) # << >>
       /\ c \notin DOMAIN chat_connections
       /\ \E w \in Conns : wsChat[w] = c /\ wsState[w] = "closed"
       /\ \E w \in Conns : wsChat[w] = c /\ wsState[w] = "open"

\* C18: mutations and events are paired one to one per chat.  In every step
\* (other than the creation of a chat), on every chat: the publishes begun
\* are as many as the operations the step applied (one for an accepted send
\* or presence request, one for each operation of the activation that runs,
\* none for a request rejected with 404 or 403 or failing before its write);
\* every message appended and every presence record or read receipt changed
\* is among them; and a publish that is in flight after the step it began in
\* carries the mutation as the store holds it (the appended message is the
\* last of the log, the presence record has the published status, the receipt
\* the published id) and iterates the subscriber list of that moment.
C18_Moved(t) ==
    << pc[t], op[t], left[t], resp[t], frame[t].pub, frame[t].idx >>
       # << pc'[t], op'[t], left'[t], resp'[t], frame'[t].pub, frame'[t].idx >>

C18_Applied(t) ==
    CASE pc[t] = "idle" ->
           IF op'[t] \in {"send", "bot_online", "presence"} THEN 1 ELSE 0
      [] pc[t] = "sleep" ->
           IF op[t] = "bot_typing" /\ op'[t] # "bot_typing" THEN 2 ELSE 1
      [] pc[t] = "sending" ->
           IF op[t] = "bot_typing" /\ op'[t] # "bot_typing" THEN 1 ELSE 0
      [] OTHER -> 0

C18_Changed(c) ==
    LET old == chats[c]
        new == chats'[c]
    IN  (Len(new.messages) - Len(old.messages))
        + Cardinality({ p \in DOMAIN new.presence : new.presence[p] # old.presence[p] })
        + Cardinality({ u \in DOMAIN new.read_receipts :
                           u \notin DOMAIN old.read_receipts
                           \/ new.read_receipts[u] # old.read_receipts[u] })

C18_MutationsPairedWithEvents ==
    [][ DOMAIN chats' = DOMAIN chats =>
          /\ \A t \in Tasks : C18_Moved(t) => nPubs' - nPubs = C18_Applied(t)
          /\ (\A t \in Tasks : ~C18_Moved(t)) => nPubs' = nPubs
          /\ \A c \in DOMAIN chats : C18_Changed(c) <= nPubs' - nPubs
          /\ \A t \in Tasks :
                (pc[t] = "idle" /\ resp'[t] \in {403, 404}) =>
                   nPubs' = nPubs /\ chats' = chats
          /\ \A t \in Tasks :
                frame'[t].pub > nPubs =>
                   LET f    == frame'[t]
                       c    == tchat'[t]
                       chat == chats'[c]
                   IN  /\ f.pub = nPubs'
                       /\ c \in DOMAIN chat_connections'
                       /\ f.list = chat_connections'[c].id
                       /\ f.idx = 1
                       /\ f.pending = Range(chat_connections'[c].ws)
                                         \ {chat_connections'[c].ws[1]}
                       /\ CASE f.event = "message_received" ->
                                 /\ chat.messages # << >>
                                 /\ chat.messages[Len(chat.messages)].id = f.data.id
                                 /\ chat.messages[Len(chat.messages)].user_id
                                       = f.data.user_id
                                 /\ Len(chat.messages) > Len(chats[c].messages)
                            [] f.event = "presence_updated" ->
                                 chat.presence[f.data.user_id].status = f.data.status
                            [] f.event = "chat_read" ->
                                 chat.read_receipts[f.data.user_id] = f.data.id
      ]_vars

\* C18 witness: a request was rejected, and the activation of an accepted
\* send has its fourth publish in flight, the bot's typing status, which the
\* store holds; the three before it were the message, the bot's online
\* status and the bot's read receipt
C18_Witness ==
    \E t, t2 \in Tasks :
       /\ pc[t2] = "done" /\ resp[t2] \in {403, 404}
       /\ pc[t] = "sending"
       /\ frame[t].event = "presence_updated"
       /\ frame[t].data.status = "typing"
       /\ frame[t].pub = 4
       /\ nPubs = 4
       /\ chats[tchat[t]].presence[BOT_USER_ID].status = "typing"
       /\ BOT_USER_ID \in DOMAIN chats[tchat[t]].read_receipts
       /\ Len(get_messages(tchat[t])) = 1

\* C19: no removal from the subscriber registry hits a missing entry: the
\* disconnect handler of no connection raises at line 462, and the pruning
\* of no publish raises at lines 481-482 (which would end the request with
\* 500 or end the activation).
C19_RemovalFindsEntry ==
    /\ \A w \in Conns : wsState[w] # "crashed"
    /\ \A t \in Tasks : /\ ~(pc[t] = "failed" /\ frame[t] = NoFrame)
                        /\ ~(pc[t] = "done" /\ op[t] \in {"send", "presence"}
                                /\ resp[t] = 500)

====
